---- MODULE Spec2Model ----
(***************************************************************************)
(* A model of the asset pipeline of vr_aruco: the texture cache and the    *)
(* material-library parser (models/material_loader.py), the object-file    *)
(* parser and display-list compiler (models/obj_loader.py) and the engine  *)
(* that owns the model (core/ar_engine.py).                                *)
(*                                                                         *)
(* A text file is a sequence of lines; a line is the sequence of tokens    *)
(* that line.strip().split() yields (`parts`).  Tokens are strings.        *)
(* int(), float() and str.split("/") are tables over the tokens the        *)
(* bounded files are written with.  Floats are held in tenths (0.8 is 8).  *)
(* Python's None is NoneStr where a string is expected, 0 where a GL name  *)
(* is expected, and the empty sequence where an object is expected.        *)
(***************************************************************************)
EXTENDS Integers, Sequences, FiniteSets, TLC

VARIABLES
    disk_tex,      \* image files: path -> "missing" | "corrupt" | "toobig" | "ok"
    disk_mtl,      \* material libraries on disk: name -> sequence of lines
    disk_obj,      \* the object file the last constructor read (<<>>: none yet)
    gl,            \* the OpenGL context: names generated, live, uploads
    loader,        \* a MaterialLoader used on its own
    mtl_result,    \* what the last load_mtl call on `loader` returned or raised
    swap_yz,       \* the swap_yz argument of the OBJModel constructor
    model,         \* <<>> or <<OBJModel>>: the model reference (AREngine.model);
                   \* <<first, second>> after the same file was loaded twice
    load_error,    \* the message of the error the last construction raised, or NoneStr
    engine,        \* the other fields of the AREngine
    phase,         \* "constructed" | "mainloop" | "leaving" | "exited"
    key_events,    \* keyboard events handled so far
    last_frame,    \* what the last _render_frame call did
    call           \* the last call of a MatrixUtils function: arguments and result

vars == <<disk_tex, disk_mtl, disk_obj, gl, loader, mtl_result, swap_yz, model,
          load_error, engine, phase, key_events, last_frame, call>>

engine_vars == <<engine, phase, key_events, last_frame, call>>

----------------------------------------------------------------------------
(* Bounds of the model. *)

MaxResolves == 3
MaxMtlLines == 3
MaxLines == 3
MaxKeys == 2
MaxMarkers == 1
MaxReloadLines == 2

NoneStr == "<None>"

Min(a, b) == IF a < b THEN a ELSE b

\* Python's seq[i:j] with 0-based i, j (j may exceed the length).
Slice(seq, i, j) == SubSeq(seq, i + 1, Min(j, Len(seq)))

\* Python's seq[i:].
Tail1(seq) == SubSeq(seq, 2, Len(seq))

----------------------------------------------------------------------------
(* Conversions of tokens. *)

IntLiterals == {"-1", "0", "1", "2", "3", "4", "9"}

\* int(tok) succeeds
IsInt(tok) == tok \in IntLiterals

\* int(tok)
IntOf(tok) ==
    CASE tok = "-1" -> -1
      [] tok = "0" -> 0
      [] tok = "1" -> 1
      [] tok = "2" -> 2
      [] tok = "3" -> 3
      [] tok = "4" -> 4
      [] tok = "9" -> 9

\* float(tok) succeeds
IsFloat(tok) == tok \in IntLiterals \cup {"0.5", "50"}

\* float(tok), in tenths
FloatOf(tok) ==
    CASE tok = "0.5" -> 5
      [] tok = "50" -> 500
      [] OTHER -> 10 * IntOf(tok)

\* part.split("/")
SplitSlash(tok) ==
    CASE tok = "1/1/1" -> <<"1", "1", "1">>
      [] tok = "2/1/1" -> <<"2", "1", "1">>
      [] tok = "3/1/1" -> <<"3", "1", "1">>
      [] tok = "1//1" -> <<"1", "", "1">>
      [] tok = "2/3/4" -> <<"2", "3", "4">>
      [] tok = "2//4" -> <<"2", "", "4">>
      [] tok = "2/3" -> <<"2", "3">>
      [] tok = "1/0" -> <<"1", "0">>
      [] tok = "1/1" -> <<"1", "1">>
      [] tok = "1/" -> <<"1", "">>
      [] OTHER -> <<tok>>

\* line.startswith("#"), on the first token of the stripped line
StartsWithHash(tok) == tok \in {"#", "#comment"}

AllSat(seq, P(_)) == \A i \in 1..Len(seq) : P(seq[i])

MapSeq(seq, F(_)) == [i \in 1..Len(seq) |-> F(seq[i])]

\* F(v) with v evaluated once, before F uses it.
Then(v, F(_)) == CHOOSE y \in { F(x) : x \in {v} } : TRUE

----------------------------------------------------------------------------
(* The OpenGL context, as far as the loaders use it. *)

TexPaths == {"t1.png", "t2.png"}

TexKinds == {"missing", "corrupt", "toobig", "ok"}

\* A fresh context: no texture or list name generated yet.
\* textures and lists are the live names, compiled the content of each
\* compiled list, deleted_tex and deleted_lists the names passed to
\* glDeleteTextures and glDeleteLists, in call order, viewport the size of
\* the viewport (<<0, 0>> while there is no window).
NewGL ==
    [tex_next |-> 1, textures |-> {}, uploads |-> [p \in TexPaths |-> 0],
     list_next |-> 1, lists |-> {}, compiled |-> <<>>,
     deleted_tex |-> <<>>, deleted_lists |-> <<>>, viewport |-> <<0, 0>>]

\* os.path.exists(texture_path)
TexExists(dtex, path) == path \in DOMAIN dtex /\ dtex[path] # "missing"

----------------------------------------------------------------------------
(* MaterialLoader *)

\* MaterialLoader.__init__; `resolved` is the history of _load_texture calls.
NewMaterialLoader == [texture_cache |-> [p \in {} |-> 0], resolved |-> <<>>]

Returned(ldr, path, ret) ==
    [ldr EXCEPT !.resolved = Append(@, [path |-> path, ret |-> ret])]

\* _load_texture without the cache lookup: every call of a loadable path uploads.
LoadTextureNoCache(ldr, g, dtex, texture_path) ==
    IF ~TexExists(dtex, texture_path) \/ dtex[texture_path] = "corrupt"
    THEN [ret |-> 0, loader |-> Returned(ldr, texture_path, 0), gl |-> g]
    ELSE LET texture_id == g.tex_next
             g1 == [g EXCEPT !.tex_next = @ + 1,
                             !.textures = @ \cup {texture_id}]
         IN IF dtex[texture_path] = "toobig"
            THEN [ret |-> 0, loader |-> Returned(ldr, texture_path, 0), gl |-> g1]
            ELSE [ret |-> texture_id,
                  loader |-> Returned(
                      [ldr EXCEPT !.texture_cache = (texture_path :> texture_id) @@ @],
                      texture_path, texture_id),
                  gl |-> [g1 EXCEPT !.uploads[texture_path] = @ + 1]]

\* MaterialLoader._load_texture: [ret, loader, gl]
LoadTexture(ldr, g, dtex, texture_path) ==
    IF texture_path \in DOMAIN ldr.texture_cache
    THEN LET hit == ldr.texture_cache[texture_path]
         IN [ret |-> hit, loader |-> Returned(ldr, texture_path, hit), gl |-> g]
    ELSE IF ~TexExists(dtex, texture_path)
    THEN [ret |-> 0, loader |-> Returned(ldr, texture_path, 0), gl |-> g]
    ELSE IF dtex[texture_path] = "corrupt"
    THEN \* pygame.image.load raises; the except clause returns 0
         [ret |-> 0, loader |-> Returned(ldr, texture_path, 0), gl |-> g]
    ELSE LET texture_id == g.tex_next
             g1 == [g EXCEPT !.tex_next = @ + 1,
                             !.textures = @ \cup {texture_id}]
         IN IF dtex[texture_path] = "toobig"
            THEN \* glTexImage2D raises; the name stays generated, nothing is cached
                 [ret |-> 0, loader |-> Returned(ldr, texture_path, 0), gl |-> g1]
            ELSE [ret |-> texture_id,
                  loader |-> Returned(
                      [ldr EXCEPT !.texture_cache = (texture_path :> texture_id) @@ @],
                      texture_path, texture_id),
                  gl |-> [g1 EXCEPT !.uploads[texture_path] = @ + 1]]

----------------------------------------------------------------------------
(* Material records: a dict from property key to value.  A value is a list *)
(* of floats, a list of strings, or the integer texture name.              *)

EmptyDict == [k \in {} |-> 0]

DictSet(d, k, v) == (k :> v) @@ d

PropFloats(nums) == [kind |-> "float", nums |-> nums, strs |-> <<>>]

PropStrs(strs) == [kind |-> "str", nums |-> <<>>, strs |-> strs]

PropInt(n) == [kind |-> "int", nums |-> <<n>>, strs |-> <<>>]

TextureKeys == {"map_Kd", "map_Ka", "map_Ks", "map_Ns", "map_d", "refl", "bump"}

\* os.path.exists(filepath) for a material library
MtlExists(dmtl, filepath) == filepath \in DOMAIN dmtl

\* The locals of load_mtl while it reads the file, and what Python raised.
MtlStart(ldr, g) ==
    [materials |-> EmptyDict, current_material |-> NoneStr,
     loader |-> ldr, gl |-> g, err |-> NoneStr]

\* `newmtl name` that keeps the record a name already has.
MtlNewmtlKeepsRecord(st, parts) ==
    IF Len(parts) < 2
    THEN [st EXCEPT !.err = "IndexError"]
    ELSE [st EXCEPT !.current_material = parts[2],
                    !.materials = IF parts[2] \in DOMAIN @ THEN @
                                  ELSE DictSet(@, parts[2], EmptyDict)]

\* `newmtl name`: open a record for name, dropping one it already had.
MtlNewmtl(st, parts) ==
    IF Len(parts) < 2
    THEN [st EXCEPT !.err = "IndexError"]
    ELSE [st EXCEPT !.current_material = parts[2],
                    !.materials = DictSet(@, parts[2], EmptyDict)]

\* A texture-map line that makes a texture that cannot be had fatal.
MtlTextureMapStrict(st, parts, dtex) ==
    IF Len(parts) < 2
    THEN [st EXCEPT !.err = "IndexError"]
    ELSE LET cur == st.current_material
             r == LoadTexture(st.loader, st.gl, dtex, parts[2])
             m1 == DictSet(st.materials[cur], parts[1], PropStrs(Tail1(parts)))
             m2 == DictSet(m1, "texture_id", PropInt(r.ret))
         IN IF r.ret = 0
            THEN [st EXCEPT !.err = "Texture file not found",
                            !.loader = r.loader, !.gl = r.gl]
            ELSE [st EXCEPT !.materials = DictSet(@, cur, m2),
                            !.loader = r.loader, !.gl = r.gl]

\* A texture-map line: keep the raw reference, resolve the texture.
MtlTextureMap(st, parts, dtex) ==
    IF Len(parts) < 2
    THEN [st EXCEPT !.err = "IndexError"]
    ELSE LET cur == st.current_material
             r == LoadTexture(st.loader, st.gl, dtex, parts[2])
             m1 == DictSet(st.materials[cur], parts[1], PropStrs(Tail1(parts)))
             m2 == DictSet(m1, "texture_id", PropInt(r.ret))
         IN [st EXCEPT !.materials = DictSet(@, cur, m2),
                       !.loader = r.loader, !.gl = r.gl]

\* Any other property line: floats, or the raw tokens when one is no float.
MtlProperty(st, parts) ==
    LET cur == st.current_material
        args == Tail1(parts)
        val == IF AllSat(args, IsFloat)
               THEN PropFloats(MapSeq(args, FloatOf))
               ELSE PropStrs(args)
    IN [st EXCEPT !.materials =
            DictSet(@, cur, DictSet(st.materials[cur], parts[1], val))]

\* The loop body without the check that a record is open: a property line
\* ahead of the first newmtl is skipped.
MtlLineLenient(st, parts, dtex) ==
    IF parts = <<>> \/ StartsWithHash(parts[1])
    THEN st
    ELSE IF parts[1] = "newmtl"
    THEN MtlNewmtl(st, parts)
    ELSE IF st.current_material = NoneStr
    THEN st
    ELSE IF parts[1] \in TextureKeys
    THEN MtlTextureMap(st, parts, dtex)
    ELSE MtlProperty(st, parts)

\* The body of the `for line in mtl_file` loop of load_mtl, for one line.
MtlLine(st, parts, dtex) ==
    IF parts = <<>> \/ StartsWithHash(parts[1])
    THEN st
    ELSE IF parts[1] = "newmtl"
    THEN MtlNewmtl(st, parts)
    ELSE IF st.current_material = NoneStr
    THEN [st EXCEPT !.err = "MTL file must start with 'newmtl'"]
    ELSE IF parts[1] \in TextureKeys
    THEN MtlTextureMap(st, parts, dtex)
    ELSE MtlProperty(st, parts)

RECURSIVE MtlLoop(_, _, _, _)
MtlLoop(lines, i, st, dtex) ==
    IF i > Len(lines) \/ st.err # NoneStr
    THEN st
    ELSE Then(MtlLine(st, lines[i], dtex), LAMBDA s : MtlLoop(lines, i + 1, s, dtex))

\* MaterialLoader.load_mtl: [ok, materials, err, loader, gl].  A raise returns
\* no mapping; the cache and the GL context keep what was done before it.
LoadMtl(ldr, g, dtex, dmtl, filepath) ==
    IF ~MtlExists(dmtl, filepath)
    THEN [ok |-> FALSE, materials |-> EmptyDict, err |-> "MTL file not found",
          loader |-> ldr, gl |-> g]
    ELSE Then(MtlLoop(dmtl[filepath], 1, MtlStart(ldr, g), dtex),
              LAMBDA st :
                [ok |-> st.err = NoneStr,
                 materials |-> IF st.err = NoneStr THEN st.materials ELSE EmptyDict,
                 err |-> st.err, loader |-> st.loader, gl |-> st.gl])

----------------------------------------------------------------------------
(* OBJModel *)

\* os.path.exists(self.filepath)
ObjExists(dobj, filepath) == filepath \in DOMAIN dobj

\* One corner of a face line: [ok, v, t, n], indices 0-based, -1 for absent.
ParseCorner(part) ==
    LET indices == SplitSlash(part)
        has_t == Len(indices) > 1 /\ indices[2] # ""
        has_n == Len(indices) > 2 /\ indices[3] # ""
    IN IF ~IsInt(indices[1]) \/ (has_t /\ ~IsInt(indices[2]))
            \/ (has_n /\ ~IsInt(indices[3]))
       THEN [ok |-> FALSE, v |-> 0, t |-> 0, n |-> 0]
       ELSE [ok |-> TRUE,
             v |-> IntOf(indices[1]) - 1,
             t |-> IF has_t THEN IntOf(indices[2]) - 1 ELSE -1,
             n |-> IF has_n THEN IntOf(indices[3]) - 1 ELSE -1]

\* _parse_face that records no material.
ParseFaceDropsMaterial(face_parts, material) ==
    LET corners == MapSeq(face_parts, ParseCorner)
    IN [ok |-> \A i \in 1..Len(corners) : corners[i].ok,
        face |-> [vertices |-> [i \in 1..Len(corners) |-> corners[i].v],
                  normals |-> [i \in 1..Len(corners) |-> corners[i].n],
                  tex_coords |-> [i \in 1..Len(corners) |-> corners[i].t],
                  material |-> NoneStr]]

\* OBJModel._parse_face: [ok, face]; int() raising ValueError is ok = FALSE.
ParseFace(face_parts, material) ==
    LET corners == MapSeq(face_parts, ParseCorner)
    IN [ok |-> \A i \in 1..Len(corners) : corners[i].ok,
        face |-> [vertices |-> [i \in 1..Len(corners) |-> corners[i].v],
                  normals |-> [i \in 1..Len(corners) |-> corners[i].n],
                  tex_coords |-> [i \in 1..Len(corners) |-> corners[i].t],
                  material |-> material]]

\* The fields OBJModel.__init__ sets before loading, with the locals of
\* _load_model and what Python raised.
ObjStart(g) ==
    [vertices |-> <<>>, normals |-> <<>>, tex_coords |-> <<>>, faces |-> <<>>,
     materials |-> EmptyDict, current_material |-> NoneStr,
     loader |-> NewMaterialLoader, gl |-> g, err |-> NoneStr]

\* [float(x) for x in parts[1:k+1]], with the Y/Z swap: [ok, vec, err]
ParseVector(parts, k, swap) ==
    LET toks == Slice(parts, 1, k + 1)
    IN IF ~AllSat(toks, IsFloat)
       THEN [ok |-> FALSE, vec |-> <<>>, err |-> "ValueError"]
       ELSE LET vec == MapSeq(toks, FloatOf)
            IN IF ~swap
               THEN [ok |-> TRUE, vec |-> vec, err |-> NoneStr]
               ELSE IF Len(vec) < 3
               THEN [ok |-> FALSE, vec |-> <<>>, err |-> "IndexError"]
               ELSE [ok |-> TRUE, vec |-> <<vec[1], vec[3], vec[2]>>, err |-> NoneStr]

\* The body of the `for line in obj_file` loop of _load_model, for one line.
ObjLine(st, parts, swap, dtex, dmtl) ==
    IF parts = <<>> \/ StartsWithHash(parts[1])
    THEN st
    ELSE IF parts[1] = "v"
    THEN LET r == ParseVector(parts, 3, swap)
         IN IF r.ok THEN [st EXCEPT !.vertices = Append(@, r.vec)]
            ELSE [st EXCEPT !.err = r.err]
    ELSE IF parts[1] = "vn"
    THEN LET r == ParseVector(parts, 3, swap)
         IN IF r.ok THEN [st EXCEPT !.normals = Append(@, r.vec)]
            ELSE [st EXCEPT !.err = r.err]
    ELSE IF parts[1] = "vt"
    THEN LET r == ParseVector(parts, 2, FALSE)
         IN IF r.ok THEN [st EXCEPT !.tex_coords = Append(@, r.vec)]
            ELSE [st EXCEPT !.err = r.err]
    ELSE IF parts[1] \in {"usemtl", "usemat"}
    THEN IF Len(parts) < 2
         THEN [st EXCEPT !.err = "IndexError"]
         ELSE [st EXCEPT !.current_material = parts[2]]
    ELSE IF parts[1] = "mtllib"
    THEN IF Len(parts) < 2
         THEN [st EXCEPT !.err = "IndexError"]
         ELSE Then(LoadMtl(st.loader, st.gl, dtex, dmtl, parts[2]),
                   LAMBDA r :
                     IF r.ok
                     THEN [st EXCEPT !.materials = r.materials,
                                     !.loader = r.loader, !.gl = r.gl]
                     ELSE [st EXCEPT !.err = r.err, !.loader = r.loader, !.gl = r.gl])
    ELSE IF parts[1] = "f"
    THEN LET r == ParseFace(Tail1(parts), st.current_material)
         IN IF r.ok THEN [st EXCEPT !.faces = Append(@, r.face)]
            ELSE [st EXCEPT !.err = "ValueError"]
    ELSE st

RECURSIVE ObjLoop(_, _, _, _, _, _)
ObjLoop(lines, i, st, swap, dtex, dmtl) ==
    IF i > Len(lines) \/ st.err # NoneStr
    THEN st
    ELSE Then(ObjLine(st, lines[i], swap, dtex, dmtl),
              LAMBDA s : ObjLoop(lines, i + 1, s, swap, dtex, dmtl))

\* _load_model with an except clause that prints the error and goes on.
LoadModelSwallowsErrors(filepath, swap, g, dtex, dmtl, dobj) ==
    IF ~ObjExists(dobj, filepath)
    THEN [ObjStart(g) EXCEPT !.err = "OBJ file not found"]
    ELSE [ObjLoop(dobj[filepath], 1, ObjStart(g), swap, dtex, dmtl)
             EXCEPT !.err = NoneStr]

\* OBJModel._load_model: the state after the file, err set when it raised.
LoadModel(filepath, swap, g, dtex, dmtl, dobj) ==
    IF ~ObjExists(dobj, filepath)
    THEN [ObjStart(g) EXCEPT !.err = "OBJ file not found"]
    ELSE ObjLoop(dobj[filepath], 1, ObjStart(g), swap, dtex, dmtl)

----------------------------------------------------------------------------
(* The display list: a sequence of GL commands [op, args]. *)

Cmd(op, args) == [op |-> op, args |-> args]

\* glDisable(GL_TEXTURE_2D); glColor3f(0.8, 0.8, 0.8)
DefaultMaterial ==
    <<Cmd("glDisable(GL_TEXTURE_2D)", <<>>), Cmd("glColor3f", <<8, 8, 8>>)>>

\* OBJModel._apply_material: [cmds, err]
ApplyMaterial(material) ==
    LET tex == IF "texture_id" \in DOMAIN material
                  /\ material["texture_id"].nums[1] > 0
               THEN <<Cmd("glEnable(GL_TEXTURE_2D)", <<>>),
                      Cmd("glBindTexture", <<material["texture_id"].nums[1]>>)>>
               ELSE <<Cmd("glDisable(GL_TEXTURE_2D)", <<>>)>>
    IN IF "Kd" \notin DOMAIN material
       THEN [cmds |-> tex, err |-> NoneStr]
       ELSE LET kd == material["Kd"]
            IN IF Len(kd.nums) + Len(kd.strs) < 3
               THEN [cmds |-> tex \o <<Cmd("glColor3f", <<8, 8, 8>>)>>, err |-> NoneStr]
               ELSE IF kd.kind = "str"
               THEN \* glColor3f of strings raises
                    [cmds |-> tex, err |-> "TypeError"]
               ELSE [cmds |-> tex \o <<Cmd("glColor3f", Slice(kd.nums, 0, 3))>>,
                     err |-> NoneStr]

\* The commands of one corner inside glBegin/glEnd.
RenderCorner(face, i, obj) ==
    LET v_idx == face.vertices[i]
        n_idx == face.normals[i]
        t_idx == face.tex_coords[i]
    IN (IF n_idx >= 0 /\ n_idx < Len(obj.normals)
        THEN <<Cmd("glNormal3fv", obj.normals[n_idx + 1])>> ELSE <<>>)
       \o (IF t_idx >= 0 /\ t_idx < Len(obj.tex_coords)
           THEN <<Cmd("glTexCoord2fv", obj.tex_coords[t_idx + 1])>> ELSE <<>>)
       \o (IF v_idx >= 0 /\ v_idx < Len(obj.vertices)
           THEN <<Cmd("glVertex3fv", obj.vertices[v_idx + 1])>> ELSE <<>>)

RECURSIVE RenderCorners(_, _, _)
RenderCorners(face, i, obj) ==
    IF i > Len(face.vertices) THEN <<>>
    ELSE RenderCorner(face, i, obj) \o RenderCorners(face, i + 1, obj)

\* The bind step indexing the material map without the membership test.
BindMaterialNoFallback(face, obj) ==
    IF face.material = NoneStr
    THEN [cmds |-> DefaultMaterial, err |-> NoneStr]
    ELSE IF face.material \in DOMAIN obj.materials
    THEN ApplyMaterial(obj.materials[face.material])
    ELSE [cmds |-> <<>>, err |-> "KeyError"]

\* The material-bind step of _render_face: [cmds, err]
BindMaterial(face, obj) ==
    IF face.material # NoneStr /\ face.material \in DOMAIN obj.materials
    THEN ApplyMaterial(obj.materials[face.material])
    ELSE [cmds |-> DefaultMaterial, err |-> NoneStr]

\* OBJModel._render_face: [cmds, err]
RenderFace(face, obj) ==
    LET bind == BindMaterial(face, obj)
    IN IF bind.err # NoneStr
       THEN bind
       ELSE [cmds |-> bind.cmds \o <<Cmd("glBegin(GL_POLYGON)", <<>>)>>
                        \o RenderCorners(face, 1, obj) \o <<Cmd("glEnd", <<>>)>>,
             err |-> NoneStr]

\* The `for face in self.faces` loop: [cmds, err], cmds those compiled so far.
RECURSIVE RenderFaces(_, _, _, _)
RenderFaces(faces, i, obj, acc) ==
    IF i > Len(faces) \/ acc.err # NoneStr
    THEN acc
    ELSE Then(RenderFace(faces[i], obj),
              LAMBDA r : RenderFaces(faces, i + 1, obj,
                                     [cmds |-> acc.cmds \o r.cmds, err |-> r.err]))

\* OBJModel._create_display_list: [display_list, gl, err].  The list name is
\* generated before the faces are walked; a raise leaves it generated and
\* never compiled.
CreateDisplayList(obj, g) ==
    LET display_list == g.list_next
        g1 == [g EXCEPT !.list_next = @ + 1, !.lists = @ \cup {display_list}]
        start == [cmds |-> <<Cmd("glFrontFace(GL_CCW)", <<>>)>>, err |-> NoneStr]
    IN Then(RenderFaces(obj.faces, 1, obj, start),
            LAMBDA r :
              IF r.err # NoneStr
              THEN [display_list |-> display_list, gl |-> g1, err |-> r.err]
              ELSE [display_list |-> display_list,
                    gl |-> [g1 EXCEPT !.compiled = (display_list :> r.cmds) @@ @],
                    err |-> NoneStr])

\* OBJModel.__init__: [ok, obj, err, gl].  ok = FALSE is the constructor
\* raising: the caller gets no object.
Parsed(filepath, swap, st) ==
    [filepath |-> filepath, swap_yz |-> swap,
     vertices |-> st.vertices, normals |-> st.normals,
     tex_coords |-> st.tex_coords, faces |-> st.faces,
     materials |-> st.materials, display_list |-> 0,
     material_loader |-> st.loader]

NewOBJModel(filepath, swap, g, dtex, dmtl, dobj) ==
    Then(LoadModel(filepath, swap, g, dtex, dmtl, dobj),
         LAMBDA st :
           IF st.err # NoneStr
           THEN [ok |-> FALSE, obj |-> Parsed(filepath, swap, st),
                 err |-> st.err, gl |-> st.gl]
           ELSE Then(CreateDisplayList(Parsed(filepath, swap, st), st.gl),
                     LAMBDA c :
                       [ok |-> c.err = NoneStr,
                        obj |-> [Parsed(filepath, swap, st)
                                    EXCEPT !.display_list = c.display_list],
                        err |-> c.err, gl |-> c.gl]))

----------------------------------------------------------------------------
(* MatrixUtils.  A float is an exact fraction <<numerator, denominator>> in *)
(* lowest terms with a positive denominator; rounding to float32 is not     *)
(* modelled.                                                                *)

Abs(n) == IF n < 0 THEN -n ELSE n

RECURSIVE Gcd(_, _)
Gcd(a, b) == IF b = 0 THEN a ELSE Gcd(b, a % b)

Frac(n, d) ==
    LET k == Gcd(Abs(n), Abs(d))
        sgn == IF d < 0 THEN -1 ELSE 1
    IN <<sgn * (n \div k), sgn * (d \div k)>>

FInt(n) == <<n, 1>>

FAdd(x, y) == Frac(x[1] * y[2] + y[1] * x[2], x[2] * y[2])

FSub(x, y) == Frac(x[1] * y[2] - y[1] * x[2], x[2] * y[2])

FMul(x, y) == Frac(x[1] * y[1], x[2] * y[2])

FDiv(x, y) == Frac(x[1] * y[2], x[2] * y[1])

FNeg(x) == <<-x[1], x[2]>>

\* ARConfig.NEAR_PLANE = 0.01 and ARConfig.FAR_PLANE = 1000.0
NearPlane == Frac(1, 100)

FarPlane == FInt(1000)

\* camera_matrix[0, 0], [1, 1], [0, 2] and [1, 2] can all be read
IntrinsicsReadable(camera_matrix) ==
    /\ Len(camera_matrix) >= 2
    /\ Len(camera_matrix[1]) >= 3
    /\ Len(camera_matrix[2]) >= 3

\* The entry of np.zeros((4, 4)) at [i, j] after the assignments, 0-based.
ProjectionEntry(camera_matrix, shape, near, far, i, j) ==
    LET fx == FInt(camera_matrix[1][1])
        fy == FInt(camera_matrix[2][2])
        cx == FInt(camera_matrix[1][3])
        cy == FInt(camera_matrix[2][3])
        width == FInt(shape[1])
        height == FInt(shape[2])
    IN CASE i = 0 /\ j = 0 -> FDiv(FMul(FInt(2), fx), width)
         [] i = 1 /\ j = 1 -> FDiv(FMul(FInt(2), fy), height)
         [] i = 2 /\ j = 0 -> FSub(FInt(1), FDiv(FMul(FInt(2), cx), width))
         [] i = 2 /\ j = 1 -> FSub(FDiv(FMul(FInt(2), cy), height), FInt(1))
         [] i = 2 /\ j = 2 -> FDiv(FNeg(FAdd(far, near)), FSub(far, near))
         [] i = 2 /\ j = 3 -> FInt(-1)
         [] i = 3 /\ j = 2 -> FDiv(FNeg(FMul(FInt(2), FMul(far, near))), FSub(far, near))
         [] OTHER -> FInt(0)

\* create_projection_matrix that flattens the matrix column by column.
CreateProjectionMatrixColumnMajor(camera_matrix, shape, near, far) ==
    IF ~IntrinsicsReadable(camera_matrix) \/ far = near
    THEN [ok |-> FALSE, matrix |-> <<>>]
    ELSE [ok |-> TRUE,
          matrix |-> [k \in 1..16 |->
                        ProjectionEntry(camera_matrix, shape, near, far,
                                        (k - 1) % 4, (k - 1) \div 4)]]

\* MatrixUtils.create_projection_matrix: [ok, matrix]; matrix is the
\* row-major flattening, entry [i, j] at position 4 * i + j + 1.  ok = FALSE
\* is the IndexError of reading an entry the intrinsics matrix lacks, or
\* the ZeroDivisionError of far - near = 0.0.
CreateProjectionMatrix(camera_matrix, shape, near, far) ==
    IF ~IntrinsicsReadable(camera_matrix) \/ far = near
    THEN [ok |-> FALSE, matrix |-> <<>>]
    ELSE [ok |-> TRUE,
          matrix |-> [k \in 1..16 |->
                        ProjectionEntry(camera_matrix, shape, near, far,
                                        (k - 1) \div 4, (k - 1) % 4)]]

Identity3 == << <<1, 0, 0>>, <<0, 1, 0>>, <<0, 0, 1>> >>

\* ARConfig.COORDINATE_TRANSFORM
CoordinateTransform == << <<1, 0, 0>>, <<0, -1, 0>>, <<0, 0, -1>> >>

\* Rotation vectors whose rotation matrix has integer entries: no rotation,
\* half turns about x and z, a quarter turn about z.
RotationVectors == {"zero", "pi about x", "pi about z", "pi/2 about z"}

\* cv2.Rodrigues(rvec)[0]
Rodrigues(rvec) ==
    CASE rvec = "zero" -> Identity3
      [] rvec = "pi about x" -> << <<1, 0, 0>>, <<0, -1, 0>>, <<0, 0, -1>> >>
      [] rvec = "pi about z" -> << <<-1, 0, 0>>, <<0, -1, 0>>, <<0, 0, 1>> >>
      [] rvec = "pi/2 about z" -> << <<0, -1, 0>>, <<1, 0, 0>>, <<0, 0, 1>> >>

\* np.hstack((rotation_matrix, tvec)) with tvec a column
HStack(rotation_matrix, tvec) ==
    [i \in 1..3 |-> Append(rotation_matrix[i], tvec[i])]

\* a @ b for a 3x3 matrix a and a 3x4 matrix b
MatMul(a, b) ==
    [i \in 1..3 |->
        [j \in 1..4 |-> a[i][1] * b[1][j] + a[i][2] * b[2][j] + a[i][3] * b[3][j]]]

\* create_model_matrix that flattens the matrix without transposing it.
CreateModelMatrixNoTranspose(rvec, tvec, transform_matrix) ==
    LET m == MatMul(transform_matrix, HStack(Rodrigues(rvec), tvec))
        eye_matrix == [i \in 1..4 |-> IF i <= 3 THEN m[i] ELSE <<0, 0, 0, 1>>]
    IN [k \in 1..16 |-> eye_matrix[((k - 1) \div 4) + 1][((k - 1) % 4) + 1]]

\* MatrixUtils.create_model_matrix: eye_matrix.T.flatten(), the entry [i, j]
\* of the transpose at position 4 * i + j + 1.
CreateModelMatrix(rvec, tvec, transform_matrix) ==
    LET rotation_matrix == Rodrigues(rvec)
        transform_matrix_4x4 == MatMul(transform_matrix, HStack(rotation_matrix, tvec))
        eye_matrix == [i \in 1..4 |-> IF i <= 3 THEN transform_matrix_4x4[i]
                                       ELSE <<0, 0, 0, 1>>]
    IN [k \in 1..16 |-> eye_matrix[((k - 1) % 4) + 1][((k - 1) \div 4) + 1]]

----------------------------------------------------------------------------
(* AREngine, with its CameraManager and OpenGLRenderer. *)

\* Camera intrinsics as rows of integers.
Intrinsics == << <<800, 0, 320>>, <<0, 800, 240>>, <<0, 0, 1>> >>

\* A calibration "matrix" entry that is 2x2.
Intrinsics2x2 == << <<800, 0>>, <<0, 800>> >>

\* Frame and window sizes.
Viewports == { <<640, 480>>, <<1280, 720>> }

\* No MatrixUtils function called on its own yet.
NoCall == [fn |-> "none", args |-> <<>>, ok |-> FALSE, result |-> <<>>]

NoFrame == [outcome |-> "none", projection |-> <<>>, calls |-> 0, stale_calls |-> 0]

\* AREngine.__init__ (model is the variable `model`, swap_yz the variable
\* swap_yz); translation is in hundredths; error is what run() raised.
NewEngine(model_path, camera_matrix, model_scale) ==
    [camera_manager |-> [cap |-> FALSE, is_initialized |-> FALSE],
     renderer |-> <<>>,
     camera_matrix |-> camera_matrix,
     model_scale |-> model_scale,
     model_path |-> model_path,
     projection_matrix |-> <<>>,
     translation |-> [x |-> 0, y |-> 0, z |-> 0],
     is_running |-> FALSE,
     window_id |-> 0,
     error |-> NoneStr]

\* The engine variables of a run that uses no engine.
EngineUnused ==
    /\ engine = NewEngine(NoneStr, Intrinsics, Frac(3, 100))
    /\ phase = "constructed"
    /\ key_events = 0
    /\ last_frame = NoFrame
    /\ call = NoCall

\* OBJModel.cleanup: [obj, gl]
CleanupModel(obj, g) ==
    IF obj.display_list # 0
    THEN [obj |-> [obj EXCEPT !.display_list = 0],
          gl |-> [g EXCEPT !.lists = @ \ {obj.display_list},
                           !.deleted_lists = Append(@, obj.display_list)]]
    ELSE [obj |-> obj, gl |-> g]

\* OpenGLRenderer.cleanup: [renderer, gl]
CleanupRenderer(rnd, g) ==
    IF rnd.background_texture_id # 0
    THEN [renderer |-> [rnd EXCEPT !.background_texture_id = 0,
                                   !.is_initialized = FALSE],
          gl |-> [g EXCEPT !.textures = @ \ {rnd.background_texture_id},
                           !.deleted_tex = Append(@, rnd.background_texture_id)]]
    ELSE [renderer |-> [rnd EXCEPT !.is_initialized = FALSE], gl |-> g]

\* cleanup that deletes the list and keeps the model and its handle.
CleanupKeepsModel(e, m, g) ==
    LET g1 == IF m # <<>> THEN CleanupModel(m[1], g).gl ELSE g
        g2 == IF e.renderer # <<>> THEN CleanupRenderer(e.renderer[1], g1).gl ELSE g1
    IN [engine |-> [e EXCEPT !.renderer = <<>>,
                             !.camera_manager = [cap |-> FALSE, is_initialized |-> FALSE],
                             !.window_id = 0],
        model |-> m,
        gl |-> g2]

\* AREngine.cleanup: [engine, model, gl]
Cleanup(e, m, g) ==
    LET g1 == IF m # <<>> THEN CleanupModel(m[1], g).gl ELSE g
        g2 == IF e.renderer # <<>> THEN CleanupRenderer(e.renderer[1], g1).gl ELSE g1
    IN [engine |-> [e EXCEPT !.renderer = <<>>,
                             !.camera_manager = [cap |-> FALSE, is_initialized |-> FALSE],
                             !.window_id = 0],
        model |-> <<>>,
        gl |-> g2]

\* What initialize() leaves when it raises `err`: cleanup() has run.
InitializeFailed(e, m, g, err) ==
    LET c == Cleanup(e, m, g)
    IN [ok |-> FALSE, engine |-> [c.engine EXCEPT !.error = err],
        model |-> c.model, gl |-> c.gl, load_error |-> NoneStr]

\* AREngine.initialize: [ok, engine, model, gl, load_error].  camera_ok is
\* cap.isOpened(), dims what the camera reports as its frame size.
Initialize(e, g, swap, camera_ok, dims, dtex, dmtl, dobj) ==
    LET e1 == [e EXCEPT !.camera_manager = [cap |-> TRUE, is_initialized |-> camera_ok]]
    IN IF ~camera_ok
       THEN InitializeFailed(e1, <<>>, g, "CameraError")
       ELSE LET rnd == [window_size |-> dims, background_texture_id |-> g.tex_next,
                        lighting_enabled |-> TRUE, is_initialized |-> TRUE]
                g1 == [g EXCEPT !.tex_next = @ + 1, !.textures = @ \cup {g.tex_next},
                                !.viewport = dims]
                e2 == [e1 EXCEPT !.window_id = 1, !.renderer = <<rnd>>]
            IN Then(NewOBJModel(e.model_path, swap, g1, dtex, dmtl, dobj),
                    LAMBDA r :
                      IF ~r.ok
                      THEN [InitializeFailed(e2, <<>>, r.gl, "ModelLoadError")
                               EXCEPT !.load_error = r.err]
                      ELSE LET p == CreateProjectionMatrix(e.camera_matrix, dims,
                                                           NearPlane, FarPlane)
                           IN IF ~p.ok
                              THEN InitializeFailed(e2, <<r.obj>>, r.gl, "IndexError")
                              ELSE [ok |-> TRUE,
                                    engine |-> [e2 EXCEPT !.projection_matrix = p.matrix],
                                    model |-> <<r.obj>>, gl |-> r.gl,
                                    load_error |-> NoneStr])

\* _handle_reshape that sets the viewport and keeps the projection matrix.
ReshapeKeepsProjection(e, g, width, height) ==
    [engine |-> e, gl |-> [g EXCEPT !.viewport = <<width, height>>]]

\* AREngine._handle_reshape: [engine, gl].  When create_projection_matrix
\* raises, the assignment does not happen.
Reshape(e, g, width, height) ==
    LET p == CreateProjectionMatrix(e.camera_matrix, <<width, height>>,
                                    NearPlane, FarPlane)
    IN [engine |-> IF p.ok THEN [e EXCEPT !.projection_matrix = p.matrix] ELSE e,
        gl |-> [g EXCEPT !.viewport = <<width, height>>]]

\* AREngine.stop, before glutLeaveMainLoop: [engine, model, gl]
Stop(e, m, g) ==
    Cleanup([e EXCEPT !.is_running = FALSE], m, g)

\* key.decode("utf-8").lower()
Lower(key) == IF key = "W" THEN "w" ELSE IF key = "R" THEN "r" ELSE key

Keys == {"+", "=", "-", "w", "W", "s", "a", "d", "q", "e", "l", "r", "R", "esc", "x"}

\* The branches of _handle_keyboard that only change fields of the engine.
KeyControl(e, key_str) ==
    CASE key_str \in {"+", "="} ->
            [e EXCEPT !.model_scale = FMul(@, Frac(11, 10))]
      [] key_str = "-" -> [e EXCEPT !.model_scale = FMul(@, Frac(9, 10))]
      [] key_str = "w" -> [e EXCEPT !.translation.y = @ - 1]
      [] key_str = "s" -> [e EXCEPT !.translation.y = @ + 1]
      [] key_str = "a" -> [e EXCEPT !.translation.x = @ + 1]
      [] key_str = "d" -> [e EXCEPT !.translation.x = @ - 1]
      [] key_str = "q" -> [e EXCEPT !.translation.z = @ + 1]
      [] key_str = "e" -> [e EXCEPT !.translation.z = @ - 1]
      [] key_str = "l" ->
            \* renderer.toggle_lighting(); with no renderer the AttributeError
            \* is caught and printed
            IF e.renderer = <<>> THEN e
            ELSE [e EXCEPT !.renderer[1].lighting_enabled = ~@]
      [] key_str = "r" ->
            [e EXCEPT !.translation = [x |-> 0, y |-> 0, z |-> 0],
                      !.model_scale = Frac(3, 100)]
      [] OTHER -> e

\* OBJModel.render for each of n markers: the glCallList calls made, and how
\* many of them named a list that is not live.
RenderModel(m, g, n) ==
    IF m = <<>> \/ m[1].display_list = 0
    THEN [calls |-> 0, stale_calls |-> 0]
    ELSE [calls |-> n,
          stale_calls |-> IF m[1].display_list \in g.lists THEN 0 ELSE n]

\* AREngine._render_frame: the new last_frame.  frame_ok is cap.read()'s
\* flag, n_markers the number of markers detected in the frame.
RenderFrameResult(e, m, g, frame_ok, n_markers) ==
    IF ~e.camera_manager.is_initialized \/ ~e.camera_manager.cap
    THEN [outcome |-> "no camera", projection |-> <<>>, calls |-> 0, stale_calls |-> 0]
    ELSE IF ~frame_ok
    THEN [outcome |-> "no frame", projection |-> <<>>, calls |-> 0, stale_calls |-> 0]
    ELSE IF e.renderer = <<>>
    THEN [outcome |-> "render error", projection |-> <<>>, calls |-> 0, stale_calls |-> 0]
    ELSE IF n_markers = 0
    THEN [outcome |-> "drawn", projection |-> <<>>, calls |-> 0, stale_calls |-> 0]
    ELSE LET r == RenderModel(m, g, n_markers)
         IN [outcome |-> "drawn", projection |-> e.projection_matrix,
             calls |-> r.calls, stale_calls |-> r.stale_calls]

----------------------------------------------------------------------------
(* The files the bounded runs read. *)

\* Paths handed to _load_texture; "nonexistent.png" is no file at all.
ResolvePaths == TexPaths \cup {"nonexistent.png"}

\* The lines a material library is written with.
MtlLines ==
    { <<"newmtl", "A">>, <<"newmtl", "B">>, <<"newmtl">>,
      <<"Kd", "1", "0", "0.5">>, <<"Kd", "red">>,
      <<"map_Kd", "t1.png">>, <<"map_Ka", "t2.png">>, <<"#comment">> }

\* Every file of at most n lines over `alphabet`.
FilesUpTo(alphabet, n) == UNION { [1..k -> alphabet] : k \in 0..n }

\* The material libraries beside the object file, and the images beside them.
FixtureMtl ==
    ("a.mtl" :> << <<"newmtl", "A">>, <<"Kd", "1", "0", "0">>, <<"map_Kd", "t1.png">> >>)
    @@ ("b.mtl" :> << <<"newmtl", "B">>, <<"map_Kd", "t2.png">>,
                      <<"newmtl", "C">>, <<"map_Ka", "t1.png">> >>)
    @@ ("bad.mtl" :> << <<"Kd", "1", "0", "0">>, <<"newmtl", "A">> >>)

FixtureTex == ("t1.png" :> "ok") @@ ("t2.png" :> "missing")

\* The lines an object file is written with.
ObjLines ==
    { <<"v", "1", "2", "3">>, <<"vn", "0", "0", "1">>, <<"vt", "0", "1">>,
      <<"usemtl", "A">>, <<"usemat", "B">>,
      <<"mtllib", "a.mtl">>, <<"mtllib", "b.mtl">>,
      <<"mtllib", "none.mtl">>, <<"mtllib", "bad.mtl">>,
      <<"#comment">>, <<"g", "group">>,
      <<"f", "1", "1", "1">>, <<"f", "1", "2", "3", "4">>,
      <<"f", "2/3/4", "2//4", "2/3", "2">>, <<"f", "1/0", "1", "1">>,
      <<"f", "1", "2">>, <<"f", "0", "-1", "9">>, <<"f", "1", "x", "1">> }

\* The object files of the engine runs: a textured triangle, a bare quad, a
\* file with two libraries, and files with each fatal error.
FixtureObj ==
    ("good.obj" :> << <<"mtllib", "a.mtl">>, <<"v", "0", "0", "0">>, <<"v", "1", "0", "0">>,
                      <<"v", "1", "1", "0">>, <<"vn", "0", "0", "1">>, <<"vt", "0", "1">>,
                      <<"usemtl", "A">>, <<"f", "1/1/1", "2/1/1", "3/1/1">> >>)
    @@ ("quad.obj" :> << <<"v", "0", "0", "0">>, <<"v", "1", "0", "0">>,
                         <<"v", "1", "1", "0">>, <<"v", "0", "1", "0">>,
                         <<"f", "1", "2", "3", "4">> >>)
    @@ ("twolibs.obj" :> << <<"mtllib", "a.mtl">>, <<"mtllib", "b.mtl">>,
                            <<"v", "0", "0", "0">>, <<"usemtl", "A">>, <<"f", "1", "1", "1">>,
                            <<"usemtl", "C">>, <<"f", "1", "1", "1">> >>)
    @@ ("badface.obj" :> << <<"v", "0", "0", "0">>, <<"f", "1", "x", "1">> >>)
    @@ ("latebadface.obj" :> << <<"mtllib", "a.mtl">>, <<"f", "1", "x", "1">> >>)
    @@ ("nolib.obj" :> << <<"mtllib", "none.mtl">>, <<"f", "1", "1", "1">> >>)
    @@ ("badlib.obj" :> << <<"v", "0", "0", "0">>, <<"mtllib", "bad.mtl">> >>)

\* The model paths an engine is constructed with; "missing.obj" is no file.
ModelPaths == DOMAIN FixtureObj \cup {"missing.obj"}

NoDisk == [n \in {} |-> <<>>]

NoMtlResult ==
    [called |-> FALSE, filepath |-> NoneStr, ok |-> FALSE,
     materials |-> EmptyDict, err |-> NoneStr]

----------------------------------------------------------------------------
(* SpecTex: any sequence of _load_texture calls on one MaterialLoader. *)

InitTex ==
    /\ disk_tex \in [TexPaths -> TexKinds]
    /\ disk_mtl = NoDisk
    /\ disk_obj = NoDisk
    /\ gl = NewGL
    /\ loader = NewMaterialLoader
    /\ mtl_result = NoMtlResult
    /\ swap_yz = FALSE
    /\ model = <<>>
    /\ load_error = NoneStr
    /\ EngineUnused

ResolveTexture ==
    /\ Len(loader.resolved) < MaxResolves
    /\ \E path \in ResolvePaths :
          \E r \in {LoadTexture(loader, gl, disk_tex, path)} :
             /\ loader' = r.loader
             /\ gl' = r.gl
    /\ UNCHANGED <<disk_tex, disk_mtl, disk_obj, mtl_result, swap_yz, model, load_error>>
    /\ UNCHANGED engine_vars

NextTex == ResolveTexture

SpecTex == InitTex /\ [][NextTex]_vars

----------------------------------------------------------------------------
(* SpecMtl: one load_mtl call on a fresh MaterialLoader, over every bounded *)
(* library file and every state of the images it names.                    *)

InitMtl == InitTex

ReadMtl ==
    /\ ~mtl_result.called
    /\ \E lines \in FilesUpTo(MtlLines, MaxMtlLines), filepath \in {"lib.mtl", "none.mtl"} :
          \E r \in {LoadMtl(loader, gl, disk_tex, "lib.mtl" :> lines, filepath)} :
             /\ disk_mtl' = ("lib.mtl" :> lines)
             /\ mtl_result' = [called |-> TRUE, filepath |-> filepath, ok |-> r.ok,
                               materials |-> r.materials, err |-> r.err]
             /\ loader' = r.loader
             /\ gl' = r.gl
    /\ UNCHANGED <<disk_tex, disk_obj, swap_yz, model, load_error>>
    /\ UNCHANGED engine_vars

NextMtl == ReadMtl

SpecMtl == InitMtl /\ [][NextMtl]_vars

----------------------------------------------------------------------------
(* SpecObj: one OBJModel construction, over every bounded object file.     *)

InitObj ==
    /\ disk_tex = FixtureTex
    /\ disk_mtl = FixtureMtl
    /\ disk_obj = NoDisk
    /\ gl = NewGL
    /\ loader = NewMaterialLoader
    /\ mtl_result = NoMtlResult
    /\ swap_yz \in BOOLEAN
    /\ model = <<>>
    /\ load_error = NoneStr
    /\ EngineUnused

Construct ==
    /\ disk_obj = NoDisk
    /\ \E lines \in FilesUpTo(ObjLines, MaxLines) :
          \E r \in {NewOBJModel("model.obj", swap_yz, gl, disk_tex, disk_mtl,
                                 "model.obj" :> lines)} :
             /\ disk_obj' = ("model.obj" :> lines)
             /\ model' = IF r.ok THEN <<r.obj>> ELSE <<>>
             /\ load_error' = r.err
             /\ gl' = r.gl
    /\ UNCHANGED <<disk_tex, disk_mtl, loader, mtl_result, swap_yz>>
    /\ UNCHANGED engine_vars

NextObj == Construct

SpecObj == InitObj /\ [][NextObj]_vars

----------------------------------------------------------------------------
(* SpecReload: the same object file constructed twice in one process.      *)

InitReload == InitObj

LoadFirst ==
    /\ disk_obj = NoDisk
    /\ \E lines \in FilesUpTo(ObjLines, MaxReloadLines) :
          \E r \in {NewOBJModel("model.obj", swap_yz, gl, disk_tex, disk_mtl,
                                 "model.obj" :> lines)} :
             /\ disk_obj' = ("model.obj" :> lines)
             /\ model' = IF r.ok THEN <<r.obj>> ELSE <<>>
             /\ load_error' = r.err
             /\ gl' = r.gl
    /\ UNCHANGED <<disk_tex, disk_mtl, loader, mtl_result, swap_yz>>
    /\ UNCHANGED engine_vars

LoadAgain ==
    /\ disk_obj # NoDisk
    /\ Len(model) = 1
    /\ \E r \in {NewOBJModel("model.obj", swap_yz, gl, disk_tex, disk_mtl, disk_obj)} :
          /\ model' = IF r.ok THEN Append(model, r.obj) ELSE model
          /\ load_error' = r.err
          /\ gl' = r.gl
    /\ UNCHANGED <<disk_tex, disk_mtl, disk_obj, loader, mtl_result, swap_yz>>
    /\ UNCHANGED engine_vars

NextReload == LoadFirst \/ LoadAgain

SpecReload == InitReload /\ [][NextReload]_vars

----------------------------------------------------------------------------
(* SpecMat: calls of the MatrixUtils functions on bounded arguments.       *)

\* Intrinsics matrices with focal lengths fx, fy and principal point cx, cy.
IntrinsicsOf(fx, fy, cx, cy) == << <<fx, 0, cx>>, <<0, fy, cy>> , <<0, 0, 1>> >>

CameraMatrices ==
    { IntrinsicsOf(fx, fy, cx, cy) :
        fx \in {800, 1000}, fy \in {800, 600}, cx \in {320, 0}, cy \in {240} }
    \cup {Intrinsics2x2}

Shapes == Viewports \cup { <<1, 1>> }

\* <<near, far>>: the configured planes, other planes, far < near, far = near
PlanePairs ==
    { <<NearPlane, FarPlane>>, <<FInt(1), FInt(10)>>, <<FInt(10), FInt(1)>>,
      <<FInt(1), FInt(1)>> }

TranslationVectors == { <<0, 0, 0>>, <<1, 2, 3>>, <<-1, 0, 5>> }

TransformMatrices ==
    { Identity3, CoordinateTransform, << <<0, 1, 0>>, <<0, 0, 1>>, <<2, 0, 0>> >> }

InitMat ==
    /\ disk_tex = FixtureTex
    /\ disk_mtl = NoDisk
    /\ disk_obj = NoDisk
    /\ gl = NewGL
    /\ loader = NewMaterialLoader
    /\ mtl_result = NoMtlResult
    /\ swap_yz = FALSE
    /\ model = <<>>
    /\ load_error = NoneStr
    /\ EngineUnused

BuildProjection ==
    /\ \E camera_matrix \in CameraMatrices, shape \in Shapes, planes \in PlanePairs :
          \E r \in {CreateProjectionMatrix(camera_matrix, shape, planes[1], planes[2])} :
             call' = [fn |-> "create_projection_matrix",
                      args |-> <<camera_matrix, shape, planes[1], planes[2]>>,
                      ok |-> r.ok, result |-> r.matrix]
    /\ UNCHANGED <<disk_tex, disk_mtl, disk_obj, gl, loader, mtl_result, swap_yz,
                   model, load_error, engine, phase, key_events, last_frame>>

BuildModel ==
    /\ \E rvec \in RotationVectors, tvec \in TranslationVectors,
          transform_matrix \in TransformMatrices :
          call' = [fn |-> "create_model_matrix",
                   args |-> <<rvec, tvec, transform_matrix>>,
                   ok |-> TRUE,
                   result |-> CreateModelMatrix(rvec, tvec, transform_matrix)]
    /\ UNCHANGED <<disk_tex, disk_mtl, disk_obj, gl, loader, mtl_result, swap_yz,
                   model, load_error, engine, phase, key_events, last_frame>>

NextMat == BuildProjection \/ BuildModel

SpecMat == InitMat /\ [][NextMat]_vars

----------------------------------------------------------------------------
(* Spec: the engine from construction to exit.                             *)

Init ==
    /\ disk_tex = FixtureTex
    /\ disk_mtl = FixtureMtl
    /\ disk_obj = FixtureObj
    /\ gl = NewGL
    /\ loader = NewMaterialLoader
    /\ mtl_result = NoMtlResult
    /\ swap_yz = TRUE
    /\ model = <<>>
    /\ load_error = NoneStr
    /\ engine \in { NewEngine(path, camera_matrix, Frac(3, 100)) :
                      path \in ModelPaths,
                      camera_matrix \in {Intrinsics, Intrinsics2x2} }
    /\ phase = "constructed"
    /\ key_events = 0
    /\ last_frame = NoFrame
    /\ call = NoCall

\* What no callback of the engine changes.
disk_vars == <<disk_tex, disk_mtl, disk_obj, loader, mtl_result, swap_yz, call>>

\* AREngine.run: initialize, then enter the main loop; when initialize
\* raises, run raises and main exits.
Run ==
    /\ phase = "constructed"
    /\ ~engine.is_running
    /\ \E camera_ok \in BOOLEAN, dims \in Viewports :
          \E r \in {Initialize(engine, gl, swap_yz, camera_ok, dims,
                               disk_tex, disk_mtl, disk_obj)} :
             /\ engine' = [r.engine EXCEPT !.is_running = r.ok]
             /\ model' = r.model
             /\ gl' = r.gl
             /\ load_error' = r.load_error
             /\ phase' = IF r.ok THEN "mainloop" ELSE "exited"
    /\ UNCHANGED <<disk_vars, key_events, last_frame>>

\* The display and idle callback.
RenderFrame ==
    /\ phase \in {"mainloop", "leaving"}
    /\ \E frame_ok \in BOOLEAN, n_markers \in 0..MaxMarkers :
          last_frame' = RenderFrameResult(engine, model, gl, frame_ok, n_markers)
    /\ UNCHANGED <<disk_vars, gl, model, load_error, engine, phase, key_events>>

\* The keyboard callback; Escape calls stop(), which ends with
\* glutLeaveMainLoop().
HandleKeyboard ==
    /\ phase \in {"mainloop", "leaving"}
    /\ key_events < MaxKeys
    /\ key_events' = key_events + 1
    /\ \E key \in Keys :
          IF Lower(key) = "esc"
          THEN \E r \in {Stop(engine, model, gl)} :
                  /\ engine' = r.engine
                  /\ model' = r.model
                  /\ gl' = r.gl
                  /\ phase' = "leaving"
          ELSE /\ engine' = KeyControl(engine, Lower(key))
               /\ UNCHANGED <<model, gl, phase>>
    /\ UNCHANGED <<disk_vars, load_error, last_frame>>

\* The reshape callback.
HandleReshape ==
    /\ phase \in {"mainloop", "leaving"}
    /\ \E shape \in Viewports :
          \E r \in {Reshape(engine, gl, shape[1], shape[2])} :
             /\ engine' = r.engine
             /\ gl' = r.gl
    /\ UNCHANGED <<disk_vars, model, load_error, phase, key_events, last_frame>>

\* glutMainLoop ends after glutLeaveMainLoop.
MainLoopExit ==
    /\ phase = "leaving"
    /\ phase' = "exited"
    /\ UNCHANGED <<disk_vars, gl, model, load_error, engine, key_events, last_frame>>

Next == Run \/ RenderFrame \/ HandleKeyboard \/ HandleReshape \/ MainLoopExit

Spec == Init /\ [][Next]_vars

----------------------------------------------------------------------------
(* Properties of the texture cache (SpecTex). *)

\* glTexImage2D calls completed for the image at `path`.
Uploads(path) == IF path \in DOMAIN gl.uploads THEN gl.uploads[path] ELSE 0

Resolved == loader.resolved

\* C1, as stated: resolving a path a second time returns what the first
\* resolve returned, and every path that was resolved had exactly one upload.
C1_ExactlyOneUploadPerPath ==
    /\ \A i, j \in 1..Len(Resolved) :
          (i < j /\ Resolved[i].path = Resolved[j].path)
              => Resolved[j].ret = Resolved[i].ret
    /\ \A i \in 1..Len(Resolved) : Uploads(Resolved[i].path) = 1

\* C1, amended: once a path has resolved to a texture handle, every later
\* resolve of it returns that handle; no path is uploaded more than once; a
\* resolved path has exactly one upload when its image exists, decodes and
\* uploads, and none otherwise.
C1_CachedHandleAtMostOneUpload ==
    /\ \A i, j \in 1..Len(Resolved) :
          (i < j /\ Resolved[i].path = Resolved[j].path /\ Resolved[i].ret # 0)
              => Resolved[j].ret = Resolved[i].ret
    /\ \A path \in ResolvePaths : Uploads(path) <= 1
    /\ \A i \in 1..Len(Resolved) :
          Uploads(Resolved[i].path) = 1
              <=> (TexExists(disk_tex, Resolved[i].path)
                   /\ disk_tex[Resolved[i].path] = "ok")

\* A path resolved twice to the same texture handle, uploaded once, after a
\* path with no image was resolved with no upload.
C1_Witness ==
    \E i, j, k \in 1..Len(Resolved) :
        /\ i < j
        /\ Resolved[i].path = Resolved[j].path
        /\ Resolved[i].ret # 0
        /\ Resolved[j].ret = Resolved[i].ret
        /\ Uploads(Resolved[i].path) = 1
        /\ ~TexExists(disk_tex, Resolved[k].path)
        /\ Uploads(Resolved[k].path) = 0

----------------------------------------------------------------------------
(* Properties of the material-library parser (SpecMtl). *)

MtlFile == disk_mtl["lib.mtl"]

\* A line that is neither blank nor a comment.
Significant(parts) == parts # <<>> /\ ~StartsWithHash(parts[1])

\* Some property line stands before the first newmtl line of the file.
PropertyBeforeNewmtl(lines) ==
    \E i \in 1..Len(lines) :
        /\ Significant(lines[i])
        /\ lines[i][1] # "newmtl"
        /\ \A j \in 1..(i - 1) : ~(Significant(lines[j]) /\ lines[j][1] = "newmtl")

\* C8: a library with a property line before its first newmtl line fails to
\* load with the parse error, and no material mapping is returned.
C8_PropertyBeforeNewmtlIsFatal ==
    (mtl_result.called /\ mtl_result.filepath = "lib.mtl"
        /\ PropertyBeforeNewmtl(MtlFile))
    => /\ ~mtl_result.ok
       /\ mtl_result.err = "MTL file must start with 'newmtl'"
       /\ mtl_result.materials = EmptyDict

\* A library whose texture-map line stands before its first newmtl was read
\* and rejected.
C8_Witness ==
    /\ mtl_result.called
    /\ mtl_result.filepath = "lib.mtl"
    /\ Len(MtlFile) >= 2
    /\ MtlFile[1] = <<"map_Kd", "t1.png">>
    /\ MtlFile[2] = <<"newmtl", "A">>
    /\ ~mtl_result.ok

----------------------------------------------------------------------------
(* Properties of the object-file parser and the compiler (SpecObj). *)

ObjFile == disk_obj["model.obj"]

Loaded == model # <<>>

TheModel == model[1]

AllTexturesPresent == [p \in TexPaths |-> "ok"]

\* C2: a path with no file resolves to 0 and nothing is raised: the
\* construction succeeds exactly when it succeeds with every image present,
\* and every resolve of a missing image made during a successful load
\* returned 0.
C2_MissingTextureIsNotFatal ==
    disk_obj # NoDisk =>
        /\ Loaded = NewOBJModel("model.obj", swap_yz, NewGL, AllTexturesPresent,
                                disk_mtl, disk_obj).ok
        /\ Loaded =>
              \A i \in 1..Len(TheModel.material_loader.resolved) :
                  LET e == TheModel.material_loader.resolved[i]
                  IN ~TexExists(disk_tex, e.path) => e.ret = 0

\* A model was built from a file whose library names a missing image; the
\* material that names it holds the sentinel.
C2_Witness ==
    /\ Loaded
    /\ \E i \in 1..Len(TheModel.material_loader.resolved) :
          ~TexExists(disk_tex, TheModel.material_loader.resolved[i].path)
    /\ "B" \in DOMAIN TheModel.materials
    /\ TheModel.materials["B"]["texture_id"].nums = <<0>>

\* C3: every face of a loaded model has at least 3 corners.
C3_FacesHaveThreeCorners ==
    Loaded => \A k \in 1..Len(TheModel.faces) : Len(TheModel.faces[k].vertices) >= 3

InPool(idx, pool) == idx >= 0 /\ idx < Len(pool)

\* C4: in a loaded model every vertex index, and every texcoord and normal
\* index that is present, lies inside its pool.
C4_IndicesInRange ==
    Loaded =>
        \A k \in 1..Len(TheModel.faces) :
            LET face == TheModel.faces[k]
            IN \A i \in 1..Len(face.vertices) :
                  /\ InPool(face.vertices[i], TheModel.vertices)
                  /\ face.tex_coords[i] # -1 => InPool(face.tex_coords[i], TheModel.tex_coords)
                  /\ face.normals[i] # -1 => InPool(face.normals[i], TheModel.normals)

\* The compiled commands of the model's display list.
Compiled == gl.compiled[TheModel.display_list]

\* The positions of the commands `op` in the compiled list, ascending.
RECURSIVE PositionsFrom(_, _)
PositionsFrom(op, i) ==
    IF i > Len(Compiled) THEN <<>>
    ELSE (IF Compiled[i].op = op THEN <<i>> ELSE <<>>) \o PositionsFrom(op, i + 1)

Begins == PositionsFrom("glBegin(GL_POLYGON)", 1)

Ends == PositionsFrom("glEnd", 1)

\* What the list holds between the end of polygon k-1 and the start of polygon k.
BindOf(k) == SubSeq(Compiled, (IF k = 1 THEN 1 ELSE Ends[k - 1]) + 1, Begins[k] - 1)

\* What the list holds between the start and the end of polygon k.
PolygonOf(k) == SubSeq(Compiled, Begins[k] + 1, Ends[k] - 1)

ParseErrors ==
    {"OBJ file not found", "ValueError", "IndexError", "MTL file not found",
     "MTL file must start with 'newmtl'"}

\* C6: the list holds one polygon per face, in face order, each after one
\* bind: the face's material when it names one the material map holds, the
\* default flat gray otherwise; and no load fails in the compiler.
C6_BindThenPolygonPerFace ==
    /\ load_error # NoneStr => load_error \in ParseErrors
    /\ Loaded =>
          /\ Len(Begins) = Len(TheModel.faces)
          /\ Len(Ends) = Len(TheModel.faces)
          /\ Len(TheModel.faces) = 0 => Len(Compiled) = 1
          /\ Len(TheModel.faces) > 0 => Ends[Len(Ends)] = Len(Compiled)
          /\ \A k \in 1..Len(TheModel.faces) :
                LET face == TheModel.faces[k]
                IN /\ Begins[k] < Ends[k]
                   /\ k > 1 => Ends[k - 1] < Begins[k]
                   /\ IF face.material # NoneStr
                         /\ face.material \in DOMAIN TheModel.materials
                      THEN BindOf(k) = ApplyMaterial(TheModel.materials[face.material]).cmds
                      ELSE BindOf(k) = DefaultMaterial

\* A model whose library defines A, with a face that names B, which no
\* loaded library defines: the load succeeded and the face is bound to the
\* default material.
C6_Witness ==
    /\ Loaded
    /\ "A" \in DOMAIN TheModel.materials
    /\ \E k \in 1..Len(TheModel.faces) :
          /\ TheModel.faces[k].material = "B"
          /\ "B" \notin DOMAIN TheModel.materials
          /\ BindOf(k) = DefaultMaterial
          /\ Begins[k] < Ends[k]

\* C7: the polygon of every face lists one position per corner, in corner
\* order.
C7_OnePositionPerCorner ==
    Loaded =>
        \A k \in 1..Len(TheModel.faces) :
            LET face == TheModel.faces[k]
                positions == SelectSeq(PolygonOf(k), LAMBDA c : c.op = "glVertex3fv")
            IN /\ Len(positions) = Len(face.vertices)
               /\ \A i \in 1..Len(positions) :
                     /\ InPool(face.vertices[i], TheModel.vertices)
                     /\ positions[i].args = TheModel.vertices[face.vertices[i] + 1]

\* The names a library on disk defines.
DefinedBy(lib) ==
    { disk_mtl[lib][i][2] :
        i \in { j \in 1..Len(disk_mtl[lib]) :
                  Len(disk_mtl[lib][j]) >= 2 /\ disk_mtl[lib][j][1] = "newmtl" } }

\* C9: the material map of a loaded model holds every material of every
\* library the file names with mtllib.
C9_MtllibMerges ==
    Loaded =>
        \A i \in 1..Len(ObjFile) :
            (Len(ObjFile[i]) >= 2 /\ ObjFile[i][1] = "mtllib")
                => DefinedBy(ObjFile[i][2]) \subseteq DOMAIN TheModel.materials

----------------------------------------------------------------------------
(* Properties of the engine (Spec). *)

\* The number of lines of a file with the directive `kind`.
CountLines(lines, kind) ==
    Cardinality({ i \in 1..Len(lines) : Significant(lines[i]) /\ lines[i][1] = kind })

\* A face corner token with an index that is no integer.
BadIndexToken(tok) ==
    LET fields == SplitSlash(tok)
    IN \/ ~IsInt(fields[1])
       \/ \E k \in 2..Min(3, Len(fields)) : fields[k] # "" /\ ~IsInt(fields[k])

\* The file at `path` is missing, has a face line with a non-integer index
\* token, or names a material library that is missing or malformed.
FatalFile(path) ==
    \/ path \notin DOMAIN disk_obj
    \/ \E i \in 1..Len(disk_obj[path]) :
          LET parts == disk_obj[path][i]
          IN \/ /\ parts[1] = "f"
                /\ \E t \in 2..Len(parts) : BadIndexToken(parts[t])
             \/ /\ parts[1] = "mtllib"
                /\ \/ parts[2] \notin DOMAIN disk_mtl
                   \/ PropertyBeforeNewmtl(disk_mtl[parts[2]])

\* C5: after run(), a model the engine holds was built from the whole file
\* and has a live compiled list; a run that raised left no model; and a file
\* with a fatal error leaves no model and makes run() raise.
C5_NoPartialModel ==
    phase # "constructed" =>
        /\ model # <<>> =>
              LET lines == disk_obj[engine.model_path]
              IN /\ engine.error = NoneStr
                 /\ Len(TheModel.vertices) = CountLines(lines, "v")
                 /\ Len(TheModel.normals) = CountLines(lines, "vn")
                 /\ Len(TheModel.tex_coords) = CountLines(lines, "vt")
                 /\ Len(TheModel.faces) = CountLines(lines, "f")
                 /\ TheModel.display_list \in gl.lists
                 /\ TheModel.display_list \in DOMAIN gl.compiled
        /\ engine.error # NoneStr => model = <<>>
        /\ FatalFile(engine.model_path) => (model = <<>> /\ engine.error # NoneStr)

\* A run on the file whose face line has a non-integer token after a vertex
\* line was parsed: the construction raised ValueError, run() raised, no model.
C5_Witness ==
    /\ phase = "exited"
    /\ engine.model_path = "badface.obj"
    /\ engine.error = "ModelLoadError"
    /\ load_error = "ValueError"
    /\ model = <<>>

\* C10: once the model has been destroyed, no list and no texture that was
\* generated is left unreleased.
C10_AllHandlesReleased ==
    Len(gl.deleted_lists) > 0 => (gl.lists = {} /\ gl.textures = {})

----------------------------------------------------------------------------
(* Properties of the projection and the callbacks (Spec). *)

\* build_projection(intrinsics, size, near, far)
ProjectionOf(camera_matrix, size) ==
    CreateProjectionMatrix(camera_matrix, size, NearPlane, FarPlane).matrix

\* with the engine's intrinsics
ProjectionFor(size) == ProjectionOf(engine.camera_matrix, size)

\* C11: while the callbacks are registered, the engine's projection matrix
\* is build_projection(intrinsics, current viewport size, near, far), and a
\* frame that sets up the 3D view passes exactly that matrix to the renderer.
C11_ProjectionFollowsViewport ==
    [][ /\ phase' \in {"mainloop", "leaving"}
            => engine'.projection_matrix
                  = ProjectionOf(engine'.camera_matrix, gl'.viewport)
        /\ (last_frame' # last_frame /\ last_frame'.projection # <<>>)
            => last_frame'.projection = ProjectionFor(gl.viewport) ]_vars

\* A frame with a marker drawn after a reshape to a size other than the
\* camera's: the matrix passed is the one of the new viewport.
C11_Witness ==
    /\ phase = "mainloop"
    /\ engine.renderer # <<>>
    /\ gl.viewport # engine.renderer[1].window_size
    /\ last_frame.projection = ProjectionFor(gl.viewport)
    /\ last_frame.projection # ProjectionFor(engine.renderer[1].window_size)

----------------------------------------------------------------------------
(* Properties of the matrix functions (SpecMat). *)

\* The fraction x equals num / den: both are the same in lowest terms.
IsRatio(x, num, den) ==
    x[2] # 0 /\ den # 0 /\ Frac(x[1], x[2]) = Frac(num, den)

\* The 0-based flat index of entry m_ij, as a position of the sequence.
Flat(i, j) == 4 * i + j + 1

\* C12: for a 3x3 intrinsics matrix, width, height > 0 and far # near, the
\* result has 16 entries, m_ij at flat index 4*i+j, with the seven stated
\* coefficients and zero everywhere else.
C12_ProjectionCoefficients ==
    (call.fn = "create_projection_matrix"
        /\ Len(call.args[1]) = 3 /\ (\A i \in 1..3 : Len(call.args[1][i]) = 3)
        /\ call.args[2][1] > 0 /\ call.args[2][2] > 0
        /\ call.args[3] # call.args[4])
    => LET fx == call.args[1][1][1]
           fy == call.args[1][2][2]
           cx == call.args[1][1][3]
           cy == call.args[1][2][3]
           width == call.args[2][1]
           height == call.args[2][2]
           \* near = nn / nd, far = fn / fd
           nn == call.args[3][1]
           nd == call.args[3][2]
           fn == call.args[4][1]
           fd == call.args[4][2]
           m == call.result
       IN /\ call.ok
          /\ Len(m) = 16
          /\ IsRatio(m[Flat(0, 0)], 2 * fx, width)
          /\ IsRatio(m[Flat(1, 1)], 2 * fy, height)
          /\ IsRatio(m[Flat(2, 0)], width - 2 * cx, width)
          /\ IsRatio(m[Flat(2, 1)], 2 * cy - height, height)
          /\ IsRatio(m[Flat(2, 2)], -(fn * nd + nn * fd), fn * nd - nn * fd)
          /\ IsRatio(m[Flat(2, 3)], -1, 1)
          /\ IsRatio(m[Flat(3, 2)], -(2 * fn * nn), fn * nd - nn * fd)
          /\ \A k \in 1..16 :
                k \notin {Flat(0, 0), Flat(1, 1), Flat(2, 0), Flat(2, 1),
                          Flat(2, 2), Flat(2, 3), Flat(3, 2)}
                    => IsRatio(m[k], 0, 1)

\* A projection for planes other than the configured ones and a principal
\* point with cx = 320, cy = 240 in a 1280x720 viewport: m20 = 1/2 and
\* m21 = -1/3.
C12_Witness ==
    /\ call.fn = "create_projection_matrix"
    /\ call.ok
    /\ call.args[2] = <<1280, 720>>
    /\ call.args[3] = FInt(10) /\ call.args[4] = FInt(1)
    /\ call.result[Flat(2, 0)] = <<1, 2>>
    /\ call.result[Flat(2, 1)] = <<-1, 3>>
    /\ call.result[Flat(2, 3)] = FInt(-1)
    /\ call.result[Flat(3, 2)] # FInt(0)

\* The entry [i, j], 0-based, of the 4x4 matrix whose top three rows are
\* C * [R | t] and whose last row is [0, 0, 0, 1].
PoseEntry(rvec, tvec, c, i, j) ==
    IF i = 3 THEN (IF j = 3 THEN 1 ELSE 0)
    ELSE LET col == [k \in 1..3 |-> IF j = 3 THEN tvec[k]
                                    ELSE Rodrigues(rvec)[k][j + 1]]
         IN c[i + 1][1] * col[1] + c[i + 1][2] * col[2] + c[i + 1][3] * col[3]

\* C13: build_model returns 16 entries, the entry [i, j] of the transpose
\* (that is, entry [j, i] of the pose matrix) at flat index 4*i+j; a zero
\* rotation vector, zero translation and identity C give the identity.
C13_ModelMatrixIsTransposedPose ==
    call.fn = "create_model_matrix"
    => /\ Len(call.result) = 16
       /\ \A i, j \in 0..3 :
             call.result[Flat(i, j)]
                = PoseEntry(call.args[1], call.args[2], call.args[3], j, i)
       /\ (call.args = <<"zero", <<0, 0, 0>>, Identity3>>)
             => call.result = <<1, 0, 0, 0, 0, 1, 0, 0, 0, 0, 1, 0, 0, 0, 0, 1>>

\* A quarter turn about z with translation (1, 2, 3) under the configured
\* coordinate transform: the translation is in the last four entries.
C13_Witness ==
    /\ call.fn = "create_model_matrix"
    /\ call.args = <<"pi/2 about z", <<1, 2, 3>>, CoordinateTransform>>
    /\ call.result = <<0, -1, 0, 0, -1, 0, 0, 0, 0, 0, -1, 0, 1, -2, -3, 1>>

----------------------------------------------------------------------------
(* Properties of loading twice (SpecReload). *)

\* C14: two loads of the same file give the same pools, the same faces in
\* the same order and the same material map, texture handles included.
C14_ReloadIsIdentical ==
    Len(model) = 2 =>
        /\ model[2].vertices = model[1].vertices
        /\ model[2].normals = model[1].normals
        /\ model[2].tex_coords = model[1].tex_coords
        /\ model[2].faces = model[1].faces
        /\ model[2].materials = model[1].materials

----------------------------------------------------------------------------
(* Properties of startup and shutdown (Spec). *)

\* The matrix has three rows of three entries.
Is3x3(camera_matrix) ==
    Len(camera_matrix) = 3 /\ \A i \in 1..3 : Len(camera_matrix[i]) = 3

\* The geometry parser ran: a construction raised, or a list was generated.
ParserInvoked == load_error # NoneStr \/ gl.list_next # NewGL.list_next

\* C15: with an intrinsics matrix that is not 3x3, startup fails, and the
\* geometry parser is never invoked.
C15_ShapeErrorBeforeModelLoad ==
    ~Is3x3(engine.camera_matrix) =>
        /\ ~ParserInvoked
        /\ phase # "constructed" => (phase = "exited" /\ engine.error # NoneStr)

----------------------------------------------------------------------------
(* Properties of the material map (SpecMtl). *)

\* The line i of the file is `newmtl name`.
IsNewmtl(lines, i, name) == lines[i] = <<"newmtl", name>>

\* The position of the last `newmtl name` line of the file.
LastNewmtl(lines, name) ==
    CHOOSE i \in 1..Len(lines) :
        /\ IsNewmtl(lines, i, name)
        /\ \A j \in (i + 1)..Len(lines) : ~IsNewmtl(lines, j, name)

\* The property lines after line i, up to the next newmtl line.
SectionAfter(lines, i) ==
    { j \in (i + 1)..Len(lines) :
        /\ Significant(lines[j])
        /\ \A k \in (i + 1)..j : lines[k][1] # "newmtl" }

\* The keys the lines at positions `section` give a record.
KeysOf(lines, section) ==
    { lines[j][1] : j \in section }
    \cup (IF \E j \in section : lines[j][1] \in TextureKeys
          THEN {"texture_id"} ELSE {})

\* C16: a returned map has one record for each name a newmtl line gives,
\* and the record holds the properties that follow the last newmtl line of
\* that name, and only those.
C16_DuplicateNewmtlLastWins ==
    (mtl_result.called /\ mtl_result.ok) =>
        /\ DOMAIN mtl_result.materials
              = { MtlFile[i][2] : i \in { k \in 1..Len(MtlFile) :
                                            MtlFile[k][1] = "newmtl" } }
        /\ \A name \in DOMAIN mtl_result.materials :
              DOMAIN mtl_result.materials[name]
                 = KeysOf(MtlFile, SectionAfter(MtlFile, LastNewmtl(MtlFile, name)))

\* A library with `newmtl A`, a colour, then `newmtl A` again: the record
\* of A has lost the colour.
C16_Witness ==
    /\ mtl_result.called /\ mtl_result.ok
    /\ Len(MtlFile) = 3
    /\ IsNewmtl(MtlFile, 1, "A")
    /\ MtlFile[2][1] = "Kd"
    /\ IsNewmtl(MtlFile, 3, "A")
    /\ mtl_result.materials = ("A" :> EmptyDict)

----------------------------------------------------------------------------
(* Properties of the parsed faces (SpecObj). *)

\* The position in the file of the line of the k-th face.
FaceLine(k) ==
    CHOOSE i \in 1..Len(ObjFile) :
        /\ ObjFile[i][1] = "f"
        /\ Cardinality({ j \in 1..i : ObjFile[j][1] = "f" }) = k

\* The usemtl and usemat lines before line i.
UseLinesBefore(i) ==
    { j \in 1..(i - 1) : ObjFile[j][1] \in {"usemtl", "usemat"} }

\* The largest member of a non-empty set of numbers.
Last(S) == CHOOSE x \in S : \A y \in S : y <= x

\* C17: each face of a loaded model has the name of the last usemtl or
\* usemat line before its line, and no material when there is none; lines
\* after the face's line play no part.
C17_FaceCarriesCurrentMaterial ==
    Loaded =>
        \A k \in 1..Len(TheModel.faces) :
            TheModel.faces[k].material
               = IF UseLinesBefore(FaceLine(k)) = {}
                 THEN NoneStr
                 ELSE ObjFile[Last(UseLinesBefore(FaceLine(k)))][2]

\* `usemtl A`, a face, `usemat B`: the face has A.
C17_Witness ==
    /\ Loaded
    /\ Len(ObjFile) = 3
    /\ ObjFile[1] = <<"usemtl", "A">>
    /\ ObjFile[2][1] = "f"
    /\ ObjFile[3] = <<"usemat", "B">>
    /\ Len(TheModel.faces) = 1
    /\ TheModel.faces[1].material = "A"

\* What a corner token says: the file indices it gives and the slots it
\* omits, for the tokens of the forms v, v/t, v//n and v/t/n that the
\* bounded files use.
Given(v, has_t, t, has_n, n) ==
    [v |-> v, has_t |-> has_t, t |-> t, has_n |-> has_n, n |-> n]

CornerToken(tok) ==
    CASE tok = "2/3/4" -> Given(2, TRUE, 3, TRUE, 4)
      [] tok = "2//4" -> Given(2, FALSE, 0, TRUE, 4)
      [] tok = "2/3" -> Given(2, TRUE, 3, FALSE, 0)
      [] tok = "1/0" -> Given(1, TRUE, 0, FALSE, 0)
      [] tok = "1/1/1" -> Given(1, TRUE, 1, TRUE, 1)
      [] tok = "2/1/1" -> Given(2, TRUE, 1, TRUE, 1)
      [] tok = "3/1/1" -> Given(3, TRUE, 1, TRUE, 1)
      [] tok = "-1" -> Given(-1, FALSE, 0, FALSE, 0)
      [] tok = "0" -> Given(0, FALSE, 0, FALSE, 0)
      [] tok = "1" -> Given(1, FALSE, 0, FALSE, 0)
      [] tok = "2" -> Given(2, FALSE, 0, FALSE, 0)
      [] tok = "3" -> Given(3, FALSE, 0, FALSE, 0)
      [] tok = "4" -> Given(4, FALSE, 0, FALSE, 0)
      [] tok = "9" -> Given(9, FALSE, 0, FALSE, 0)

\* C18: each corner of each face of a loaded model stores the file index
\* minus 1 for every index its token gives, and -1 for the texcoord or the
\* normal exactly when the token omits that slot.
C18_CornerTokenForms ==
    Loaded =>
        \A k \in 1..Len(TheModel.faces) :
            LET parts == ObjFile[FaceLine(k)]
                face == TheModel.faces[k]
            IN /\ Len(face.vertices) = Len(parts) - 1
               /\ Len(face.tex_coords) = Len(parts) - 1
               /\ Len(face.normals) = Len(parts) - 1
               /\ \A c \in 1..(Len(parts) - 1) :
                     LET tok == CornerToken(parts[c + 1])
                     IN /\ face.vertices[c] = tok.v - 1
                        /\ face.tex_coords[c] = IF tok.has_t THEN tok.t - 1 ELSE -1
                        /\ face.normals[c] = IF tok.has_n THEN tok.n - 1 ELSE -1
                        /\ (face.tex_coords[c] = -1) <=> ~tok.has_t
                        /\ (face.normals[c] = -1) <=> ~tok.has_n

\* C19: no list name is passed to glDeleteLists twice, and no frame calls a
\* list that is not live.
C19_HandleReleasedOnceNeverCalledAfter ==
    /\ \A i, j \in 1..Len(gl.deleted_lists) :
          i # j => gl.deleted_lists[i] # gl.deleted_lists[j]
    /\ last_frame.stale_calls = 0
    /\ (last_frame.calls > 0 /\ model # <<>>) => TheModel.display_list \in gl.lists

\* After stop released the model's list, another key and a frame callback
\* arrived before the main loop ended: the list was released once and the
\* frame drew nothing.
C19_Witness ==
    /\ phase = "leaving"
    /\ Len(gl.deleted_lists) = 1
    /\ key_events = 2
    /\ last_frame.outcome = "no camera"
    /\ last_frame.calls = 0

====
